---------------------------- MODULE Spec2Model ----------------------------
(***************************************************************************)
(* TypeBleed collector (src/server/server.py): the in-memory session       *)
(* store, the access log and the read endpoints, as a state machine.       *)
(*                                                                         *)
(* The collector is a Flask application started with app.run(): every      *)
(* request is handled by its own thread.  Handlers share the module-level  *)
(* `sessions` and `access_log` and take no lock.  A handler is modelled    *)
(* as a sequence of steps, one per source statement; a thread may be       *)
(* pre-empted between two statements and where a statement calls back     *)
(* into Python code (the default factory of `sessions`).                   *)
(*                                                                         *)
(* Strings the code inspects character by character (code points in hex,   *)
(* the User-Agent header) are sequences of one-character strings.          *)
(***************************************************************************)
EXTENDS Integers, Sequences, FiniteSets, TLC

\* ------------------------------------------------------------------------
\* Bounds of the model
\* ------------------------------------------------------------------------
\* Tracked-font requests served in one behaviour of the concurrent model.
MaxRequests == 2
\* Largest value time.time() returns (the clock starts at 1).
MaxTime == 2

\* Request threads of the font route, in the order the server hands them out.
ThreadOrder == <<"t1", "t2">>
Threads == { ThreadOrder[i] : i \in DOMAIN ThreadOrder }
\* Session ids embedded in the font URL (uuid4 prefixes handed out by index()),
\* in the order they are first seen.
SessionOrder == <<"s1", "s2">>
SessionIds == { SessionOrder[i] : i \in DOMAIN SessionOrder }
\* <codepoint> path segments as the browser may send them.
CodepointInputs ==
    { <<"0","0","4","1">>, <<"0","0","6","a">> }
\* (request.remote_addr, User-Agent header) of the clients, in the order they
\* first connect.
ClientOrder ==
    << [ip |-> "10.0.0.1", user_agent |-> <<"F","x">>],
       [ip |-> "10.0.0.2", user_agent |-> <<"C","r">>] >>
Clients == { ClientOrder[i] : i \in DOMAIN ClientOrder }

\* Names are interchangeable: the values of `order` seen so far and the first
\* one not seen yet.
SeenOrNext(order, seen) ==
    { order[i] : i \in { j \in DOMAIN order :
                            \A k \in 1..(j - 1) : order[k] \in seen } }

\* ------------------------------------------------------------------------
\* Strings
\* ------------------------------------------------------------------------
\* str.upper() on one character of a hex string.
UpperChar(c) ==
    CASE c = "a" -> "A" [] c = "b" -> "B" [] c = "c" -> "C"
      [] c = "d" -> "D" [] c = "e" -> "E" [] c = "f" -> "F"
      [] OTHER -> c

\* str.upper()
Upper(s) == [i \in DOMAIN s |-> UpperChar(s[i])]

\* ------------------------------------------------------------------------
\* State
\* ------------------------------------------------------------------------
VARIABLES
    clock,        \* the value time.time() returned last
    heap,         \* the session dicts ever created by the default factory
    sessions,     \* the defaultdict: <<key, reference into heap>> in insertion order
    access_log,   \* the list of log entries
    pc,           \* pc[t]: the statement thread t executes next
    req,          \* req[t]: the locals of serve_tracked_font in thread t
    rpc,          \* the statement the reading client's handler executes next
    loc,          \* the locals of api_sessions or api_log in the reader's thread
    response,     \* the JSON body returned by the step just taken, if any
    tool,         \* reconstruct.py: the statement it executes next, and its locals
    dashboard     \* the dashboard page: lastLogCount and the entries it has shown

vars == <<clock, heap, sessions, access_log, pc, req, rpc, loc, response, tool, dashboard>>
shared == <<clock, heap, sessions, access_log>>
ingest == <<pc, req>>
reader == <<rpc, loc>>

\* The dict the default factory of `sessions` returns.
DefaultSession ==
    [codepoints |-> <<>>, ip |-> "", user_agent |-> <<>>,
     first_seen |-> 0, last_seen |-> 0]

NoRequest == [session_id |-> "", codepoint |-> <<>>, ip |-> "",
              user_agent |-> <<>>, now |-> 0, sess |-> 0]

\* The reader's locals outside a handler, and a step that returns nothing.
NoLocals == [pos |-> 0, used |-> 0, sid |-> "", data |-> 0, codepoints |-> <<>>,
             result |-> <<>>, unique_ips |-> {}, total_chars |-> 0,
             since |-> 0, entries |-> <<>>]
NoResponse == [route |-> "none"]
\* reconstruct.py is not running
NoTool == [pc |-> "off"]
\* the dashboard page as loaded: let lastLogCount = 0, an empty log container,
\* no request under way
PageLoaded == [lastLogCount |-> 0, logContainer |-> <<>>, polling |-> FALSE]

\* Keys of the defaultdict, and the dict a key maps to.
Keys == { sessions[i].key : i \in DOMAIN sessions }
RefOf(sid) == (CHOOSE i \in DOMAIN sessions : sessions[i].key = sid)
Ref(sid) == sessions[RefOf(sid)].ref
Session(sid) == heap[Ref(sid)]

\* d[k] = v on a dict
DictMutantRepeat(d, k, v) ==
    LET key == IF k \in DOMAIN d THEN k \o <<"+">> ELSE k
    IN  [x \in (DOMAIN d) \cup {key} |-> IF x = key THEN v ELSE d[x]]
DictSet(d, k, v) == [x \in (DOMAIN d) \cup {k} |-> IF x = k THEN v ELSE d[x]]

\* sessions[key] = ref : a new key goes last, an existing key keeps its place
TableMutantShared(tbl, key, ref) ==
    Append(tbl, [key |-> key, ref |-> IF tbl = <<>> THEN ref ELSE tbl[1].ref])
TableSet(tbl, key, ref) ==
    IF \E i \in DOMAIN tbl : tbl[i].key = key
    THEN [i \in DOMAIN tbl |->
            IF tbl[i].key = key THEN [key |-> key, ref |-> ref] ELSE tbl[i]]
    ELSE Append(tbl, [key |-> key, ref |-> ref])

\* The collector after start-up: nothing logged, no request in progress.
CollectorInit ==
    /\ clock = 1
    /\ heap = <<>>
    /\ sessions = <<>>
    /\ access_log = <<>>
    /\ pc = [t \in Threads |-> "idle"]
    /\ req = [t \in Threads |-> NoRequest]
    /\ rpc = "idle"
    /\ loc = NoLocals
    /\ response = NoResponse
    /\ dashboard = PageLoaded

Init ==
    /\ CollectorInit
    /\ tool = NoTool

\* ------------------------------------------------------------------------
\* serve_tracked_font
\* ------------------------------------------------------------------------
\* lines 168-169: the route's arguments, codepoint.upper(), now = time.time()
SeenSessionIds ==
    { req[u].session_id : u \in Threads }
        \cup { access_log[i].session_id : i \in DOMAIN access_log }
SeenClients ==
    { c \in Clients :
        \/ \E u \in Threads : req[u].ip = c.ip
        \/ \E i \in DOMAIN access_log : access_log[i].ip = c.ip }
\* The server hands a request to the first thread that is free.
FirstIdle(t) ==
    \E i \in DOMAIN ThreadOrder :
        /\ ThreadOrder[i] = t
        /\ pc[t] = "idle"
        /\ \A k \in 1..(i - 1) : pc[ThreadOrder[k]] # "idle"

Begin(t) ==
    /\ FirstIdle(t)
    /\ Len(access_log) + Cardinality({u \in Threads : pc[u] = "append"}) < MaxRequests
    /\ \E sid \in SeenOrNext(SessionOrder, SeenSessionIds),
          cp \in CodepointInputs,
          c \in SeenOrNext(ClientOrder, SeenClients),
          d \in {0, 1} :
          /\ clock + d <= MaxTime
          /\ clock' = clock + d
          /\ req' = [req EXCEPT ![t] =
                        [session_id |-> sid, codepoint |-> Upper(cp), ip |-> c.ip,
                         user_agent |-> c.user_agent, now |-> clock + d, sess |-> 0]]
    /\ pc' = [pc EXCEPT ![t] = "append"]
    /\ UNCHANGED <<heap, sessions, access_log, reader, tool, dashboard>>
    /\ response' = NoResponse

\* lines 172-180: the log entry of the request
Entry(r) ==
    [timestamp |-> r.now, ip |-> r.ip, session_id |-> r.session_id,
     codepoint |-> r.codepoint, user_agent |-> r.user_agent]

\* line 181: access_log.append(entry)
LogMutantPrepend(log, e) == <<e>> \o log
LogAppend(log, e) == Append(log, e)

AppendEntry(t) ==
    /\ pc[t] = "append"
    /\ access_log' = LogAppend(access_log, Entry(req[t]))
    /\ pc' = [pc EXCEPT ![t] = "lookup"]
    /\ UNCHANGED <<clock, heap, sessions, req, reader, tool, dashboard>>
    /\ response' = NoResponse

\* line 184: sess = sessions[session_id].  A hit returns the stored dict.
\* A miss runs defaultdict.__missing__: it calls the default factory (the
\* lambda of lines 55-61, Python code, so the thread may be pre-empted
\* there) and only afterwards stores the new dict under the key.
Lookup(t) ==
    /\ pc[t] = "lookup"
    /\ IF req[t].session_id \in Keys
       THEN /\ req' = [req EXCEPT ![t].sess = Ref(req[t].session_id)]
            /\ pc' = [pc EXCEPT ![t] = "codepoints"]
            /\ UNCHANGED heap
       ELSE /\ heap' = Append(heap, DefaultSession)
            /\ req' = [req EXCEPT ![t].sess = Len(heap) + 1]
            /\ pc' = [pc EXCEPT ![t] = "setitem"]
    /\ UNCHANGED <<clock, sessions, access_log, reader, tool, dashboard>>
    /\ response' = NoResponse

\* line 184, second half of a miss: self[key] = value; return value
SetItem(t) ==
    /\ pc[t] = "setitem"
    /\ sessions' = TableSet(sessions, req[t].session_id, req[t].sess)
    /\ pc' = [pc EXCEPT ![t] = "codepoints"]
    /\ UNCHANGED <<clock, heap, access_log, req, reader, tool, dashboard>>
    /\ response' = NoResponse

\* line 185: sess["codepoints"][codepoint] = now
PutCodepoint(data, cp, now) ==
    [data EXCEPT !.codepoints = DictSet(@, cp, now)]

\* line 186: sess["ip"] = request.remote_addr
PutIp(data, ip) == [data EXCEPT !.ip = ip]

\* line 187: sess["user_agent"] = request.headers.get("User-Agent", "")
PutUserAgent(data, ua) == [data EXCEPT !.user_agent = ua]

\* line 189: sess["first_seen"] = now
PutFirstSeen(data, now) == [data EXCEPT !.first_seen = now]

\* line 190: sess["last_seen"] = now
PutLastSeen(data, now) == [data EXCEPT !.last_seen = now]

\* One statement of lines 185-190 on the dict `sess` refers to.
Store(t, at, data, to) ==
    /\ pc[t] = at
    /\ heap' = [heap EXCEPT ![req[t].sess] = data]
    /\ pc' = [pc EXCEPT ![t] = to]
    /\ UNCHANGED <<clock, sessions, access_log, req, reader, tool, dashboard>>
    /\ response' = NoResponse

Sess(t) == heap[req[t].sess]

StoreCodepoint(t) ==
    Store(t, "codepoints", PutCodepoint(Sess(t), req[t].codepoint, req[t].now), "ip")

StoreIp(t) == Store(t, "ip", PutIp(Sess(t), req[t].ip), "user_agent")

StoreUserAgent(t) ==
    Store(t, "user_agent", PutUserAgent(Sess(t), req[t].user_agent), "first_seen")

\* line 188: if sess["first_seen"] == 0:
FirstSeenUnset(data) == data.first_seen = 0

TestFirstSeen(t) ==
    /\ pc[t] = "first_seen"
    /\ pc' = [pc EXCEPT ![t] =
                 IF FirstSeenUnset(Sess(t)) THEN "set_first_seen" ELSE "last_seen"]
    /\ UNCHANGED <<clock, heap, sessions, access_log, req, reader, tool, dashboard>>
    /\ response' = NoResponse

StoreFirstSeen(t) ==
    Store(t, "set_first_seen", PutFirstSeen(Sess(t), req[t].now), "last_seen")

\* line 190, then the response (lines 192-210 touch no shared state)
StoreLastSeen(t) ==
    /\ pc[t] = "last_seen"
    /\ heap' = [heap EXCEPT ![req[t].sess] = PutLastSeen(Sess(t), req[t].now)]
    /\ pc' = [pc EXCEPT ![t] = "idle"]
    /\ req' = [req EXCEPT ![t] = NoRequest]
    /\ UNCHANGED <<clock, sessions, access_log, reader, tool, dashboard>>
    /\ response' = NoResponse

serve_tracked_font(t) ==
    \/ Begin(t)
    \/ AppendEntry(t)
    \/ Lookup(t)
    \/ SetItem(t)
    \/ StoreCodepoint(t)
    \/ StoreIp(t)
    \/ StoreUserAgent(t)
    \/ TestFirstSeen(t)
    \/ StoreFirstSeen(t)
    \/ StoreLastSeen(t)

\* ------------------------------------------------------------------------
\* Ordering of strings and lists
\* ------------------------------------------------------------------------
\* The characters of a hex string in code-point order.
HexAlphabet ==
    <<"0","1","2","3","4","5","6","7","8","9",
      "A","B","C","D","E","F","a","b","c","d","e","f">>
CharRank(c) == CHOOSE i \in DOMAIN HexAlphabet : HexAlphabet[i] = c

\* a < b on str: the first differing character decides, a proper prefix is less
StrLess(a, b) ==
    \/ \E i \in 1..Len(a) :
          /\ i <= Len(b)
          /\ \A j \in 1..(i - 1) : a[j] = b[j]
          /\ CharRank(a[i]) < CharRank(b[i])
    \/ /\ Len(a) < Len(b)
       /\ \A j \in 1..Len(a) : a[j] = b[j]

\* sorted(d.keys()) of a dict keyed by strings
RECURSIVE SortedKeys(_)
SortedKeys(ks) ==
    IF ks = {} THEN <<>>
    ELSE LET least == CHOOSE k \in ks : \A o \in ks \ {k} : StrLess(k, o)
         IN  <<least>> \o SortedKeys(ks \ {least})

\* list.sort(key=lambda x: x["last_seen"], reverse=True): the sort is stable,
\* and stays so under reverse=True, so an element goes behind every element
\* already placed whose key is not smaller.
InsertMutantAscending(sorted, x) ==
    LET before == { i \in DOMAIN sorted : sorted[i].last_seen <= x.last_seen }
        k == Cardinality(before)
    IN  SubSeq(sorted, 1, k) \o <<x>> \o SubSeq(sorted, k + 1, Len(sorted))
InsertByLastSeen(sorted, x) ==
    LET before == { i \in DOMAIN sorted : sorted[i].last_seen >= x.last_seen }
        k == Cardinality(before)
    IN  SubSeq(sorted, 1, k) \o <<x>> \o SubSeq(sorted, k + 1, Len(sorted))

RECURSIVE SortByLastSeen(_)
SortByLastSeen(result) ==
    IF result = <<>> THEN <<>>
    ELSE InsertByLastSeen(SortByLastSeen(SubSeq(result, 1, Len(result) - 1)),
                          result[Len(result)])

\* ------------------------------------------------------------------------
\* The character map and codepoint_to_char (server.py and reconstruct.py
\* hold the same code)
\* ------------------------------------------------------------------------
\* A str is the sequence of its characters.
\* chr(cp) for cp in range(0x0020, 0x007F): Printable[cp - 31]
\* chr(0x60), a character that a TLA+ string cannot hold, under its name
GraveAccent == "grave accent"
FirstPrintable == 32
LastPrintable == 126
Printable ==
    <<
          " ", "!", "\"", "#", "$", "%", "&", "'", "(", ")", "*", "+",
          ",", "-", ".", "/", "0", "1", "2", "3", "4", "5", "6", "7",
          "8", "9", ":", ";", "<", "=", ">", "?", "@", "A", "B", "C",
          "D", "E", "F", "G", "H", "I", "J", "K", "L", "M", "N", "O",
          "P", "Q", "R", "S", "T", "U", "V", "W", "X", "Y", "Z", "[",
          "\\", "]", "^", "_", GraveAccent, "a", "b", "c", "d", "e", "f", "g",
          "h", "i", "j", "k", "l", "m", "n", "o", "p", "q", "r", "s",
          "t", "u", "v", "w", "x", "y", "z", "{", "|", "}", "~" >>

HexDigit(n) == HexAlphabet[n + 1]

\* f"{cp:04X}": at least four upper-case hex digits, padded with zeros
Format04X(cp) ==
    << HexDigit((cp \div 4096) % 16), HexDigit((cp \div 256) % 16),
       HexDigit((cp \div 16) % 16), HexDigit(cp % 16) >>

\* ord(ch) for ch in the four currency symbols
Currency ==
    { [ord |-> 8364, ch |-> "€"], [ord |-> 163, ch |-> "£"],
      [ord |-> 165, ch |-> "¥"], [ord |-> 8383, ch |-> "₿"] }

CharMapItems ==
    { <<Format04X(cp), <<Printable[cp - (FirstPrintable - 1)]>>>> :
         cp \in FirstPrintable..LastPrintable }
    \cup { <<Format04X(c.ord), <<c.ch>>>> : c \in Currency }

CHAR_MAP ==
    [k \in { item[1] : item \in CharMapItems } |->
        (CHOOSE item \in CharMapItems : item[1] = k)[2]]

\* A registry whose fallback is built from the upper-cased argument.
ToGlyphMutantUpper(hex_cp) ==
    IF Upper(hex_cp) \in DOMAIN CHAR_MAP
    THEN CHAR_MAP[Upper(hex_cp)]
    ELSE <<"U", "+">> \o Upper(hex_cp)

\* CHAR_MAP.get(hex_cp.upper(), f"U+{hex_cp}")
codepoint_to_char(hex_cp) ==
    IF Upper(hex_cp) \in DOMAIN CHAR_MAP
    THEN CHAR_MAP[Upper(hex_cp)]
    ELSE <<"U", "+">> \o hex_cp

\* ------------------------------------------------------------------------
\* infer_words, in reconstruct.py and in server.py
\* ------------------------------------------------------------------------
\* The characters chr(lo)..chr(hi) of the printable ASCII range.
CharsBetween(lo, hi) == { Printable[cp - (FirstPrintable - 1)] : cp \in lo..hi }
Digits == CharsBetween(48, 57)
UpperLetters == CharsBetween(65, 90)
LowerLetters == CharsBetween(97, 122)

\* The word lists; a word is the sequence of its letters.
Banking ==
    <<
      <<"a","c","c","o","u","n","t">>, <<"b","a","l","a","n","c","e">>,
      <<"t","r","a","n","s","f","e","r">>, <<"p","a","y","m","e","n","t">>,
      <<"s","a","l","a","r","y">>, <<"c","r","e","d","i","t">>, <<"d","e","b","i","t">>,
      <<"c","a","r","d">>, <<"s","a","v","i","n","g","s">>, <<"c","u","r","r","e","n","t">>,
      <<"i","b","a","n">>, <<"t","r","a","n","s","a","c","t","i","o","n">>,
      <<"a","m","o","u","n","t">>, <<"t","o","t","a","l">>, <<"e","u","r","o">>,
      <<"m","o","n","t","h","l","y">>, <<"s","t","a","t","e","m","e","n","t">>,
      <<"w","i","t","h","d","r","a","w">>, <<"d","e","p","o","s","i","t">>,
      <<"i","n","t","e","r","e","s","t">>, <<"l","o","a","n">>,
      <<"m","o","r","t","g","a","g","e">>, <<"o","v","e","r","d","r","a","f","t">>,
      <<"f","e","e">>, <<"c","h","a","r","g","e">>, <<"r","e","f","u","n","d">>,
      <<"p","e","n","d","i","n","g">>, <<"c","o","m","p","l","e","t","e","d">>,
      <<"f","a","i","l","e","d">>, <<"s","e","c","u","r","e">>,
      <<"s","e","c","u","r","i","t","y">>,
      <<"a","u","t","h","e","n","t","i","c","a","t","i","o","n">>,
      <<"p","a","s","s","w","o","r","d">>, <<"l","o","g","i","n">>,
      <<"s","e","s","s","i","o","n">>, <<"a","c","t","i","v","e">>,
      <<"e","x","p","i","r","e","d">>, <<"p","e","r","s","o","n","a","l">>,
      <<"b","u","s","i","n","e","s","s">>, <<"j","o","i","n","t">>, <<"h","o","l","d","e","r">> >>
Common ==
    <<
      <<"t","h","e">>, <<"b","e">>, <<"t","o">>, <<"o","f">>, <<"a","n","d">>, <<"a">>,
      <<"i","n">>, <<"t","h","a","t">>, <<"h","a","v","e">>, <<"i","t">>, <<"f","o","r">>,
      <<"n","o","t">>, <<"o","n">>, <<"w","i","t","h">>, <<"a","s">>, <<"y","o","u">>, <<"d","o">>,
      <<"a","t">>, <<"t","h","i","s">>, <<"b","u","t">>, <<"b","y">>, <<"f","r","o","m">>,
      <<"t","h","e","y">>, <<"w","e">>, <<"s","a","y">>, <<"h","e","r">>, <<"s","h","e">>,
      <<"o","r">>, <<"a","n">>, <<"w","i","l","l">>, <<"m","y">>, <<"o","n","e">>, <<"a","l","l">>,
      <<"w","o","u","l","d">>, <<"t","h","e","r","e">>, <<"t","h","e","i","r">>,
      <<"w","h","a","t">>, <<"s","o">>, <<"u","p">>, <<"o","u","t">>, <<"i","f">>,
      <<"a","b","o","u","t">>, <<"w","h","o">>, <<"g","e","t">>, <<"w","h","i","c","h">>,
      <<"g","o">>, <<"m","e">>, <<"w","h","e","n">>, <<"m","a","k","e">>, <<"c","a","n">>,
      <<"l","i","k","e">>, <<"t","i","m","e">>, <<"n","o">>, <<"j","u","s","t">>,
      <<"k","n","o","w">>, <<"t","a","k","e">>, <<"p","e","o","p","l","e">>, <<"i","n","t","o">>,
      <<"y","e","a","r">>, <<"y","o","u","r">>, <<"g","o","o","d">>, <<"s","o","m","e">>,
      <<"c","o","u","l","d">>, <<"t","h","e","m">>, <<"s","e","e">>, <<"o","t","h","e","r">>,
      <<"t","h","a","n">>, <<"t","h","e","n">>, <<"n","o","w">>, <<"l","o","o","k">>,
      <<"o","n","l","y">>, <<"c","o","m","e">>, <<"b","a","c","k">>, <<"a","f","t","e","r">>,
      <<"u","s","e">>, <<"t","w","o">>, <<"h","o","w">>, <<"o","u","r">>, <<"w","o","r","k">>,
      <<"f","i","r","s","t">>, <<"w","e","l","l">>, <<"w","a","y">>, <<"e","v","e","n">>,
      <<"n","e","w">>, <<"w","a","n","t">>, <<"b","e","c","a","u","s","e">>, <<"a","n","y">>,
      <<"t","h","e","s","e">>, <<"g","i","v","e">>, <<"d","a","y">>, <<"m","o","s","t">> >>
Names ==
    <<
      <<"m","i","h","a","l","i","s">>, <<"h","a","a","t","a","i","n","e","n">>,
      <<"a","n","t","t","i">>, <<"k","o","r","h","o","n","e","n">>, <<"s","a","n","n","a">>,
      <<"v","i","r","t","a","n","e","n">>, <<"h","e","l","s","i","n","k","i">>,
      <<"f","i","n","l","a","n","d">>, <<"b","o","u","n","t","y","y">>,
      <<"s","e","c","u","r","e","b","a","n","k">>, <<"n","e","t","f","l","i","x">>,
      <<"w","o","l","t">> >>
NumbersCurrency ==
    <<
      <<"0">>, <<"1">>, <<"2">>, <<"3">>, <<"4">>, <<"5">>, <<"6">>, <<"7">>, <<"8">>, <<"9">> >>

WORD_LISTS ==
    [banking |-> Banking, common |-> Common, names |-> Names,
     numbers_currency |-> NumbersCurrency]

COMMON_WORDS ==
    <<
      <<"t","h","e">>, <<"b","e">>, <<"t","o">>, <<"o","f">>, <<"a","n","d">>, <<"a">>,
      <<"i","n">>, <<"t","h","a","t">>, <<"h","a","v","e">>, <<"i">>, <<"i","t">>, <<"f","o","r">>,
      <<"n","o","t">>, <<"o","n">>, <<"w","i","t","h">>, <<"h","e">>, <<"a","s">>, <<"y","o","u">>,
      <<"d","o">>, <<"a","t">>, <<"t","h","i","s">>, <<"b","u","t">>, <<"h","i","s">>, <<"b","y">>,
      <<"f","r","o","m">>, <<"t","h","e","y">>, <<"w","e">>, <<"s","a","y">>, <<"h","e","r">>,
      <<"s","h","e">>, <<"o","r">>, <<"a","n">>, <<"w","i","l","l">>, <<"m","y">>, <<"o","n","e">>,
      <<"a","l","l">>, <<"w","o","u","l","d">>, <<"t","h","e","r","e">>, <<"t","h","e","i","r">>,
      <<"w","h","a","t">>, <<"s","o">>, <<"u","p">>, <<"o","u","t">>, <<"i","f">>,
      <<"a","b","o","u","t">>, <<"w","h","o">>, <<"g","e","t">>, <<"w","h","i","c","h">>,
      <<"g","o">>, <<"m","e">>, <<"w","h","e","n">>, <<"m","a","k","e">>, <<"c","a","n">>,
      <<"l","i","k","e">>, <<"t","i","m","e">>, <<"n","o">>, <<"j","u","s","t">>, <<"h","i","m">>,
      <<"k","n","o","w">>, <<"t","a","k","e">>, <<"p","e","o","p","l","e">>, <<"i","n","t","o">>,
      <<"y","e","a","r">>, <<"y","o","u","r">>, <<"g","o","o","d">>, <<"s","o","m","e">>,
      <<"c","o","u","l","d">>, <<"t","h","e","m">>, <<"s","e","e">>, <<"o","t","h","e","r">>,
      <<"t","h","a","n">>, <<"t","h","e","n">>, <<"n","o","w">>, <<"l","o","o","k">>,
      <<"o","n","l","y">>, <<"c","o","m","e">>, <<"i","t","s">>, <<"o","v","e","r">>,
      <<"t","h","i","n","k">>, <<"a","l","s","o">>, <<"b","a","c","k">>, <<"a","f","t","e","r">>,
      <<"u","s","e">>, <<"t","w","o">>, <<"h","o","w">>, <<"o","u","r">>, <<"w","o","r","k">>,
      <<"f","i","r","s","t">>, <<"w","e","l","l">>, <<"w","a","y">>, <<"e","v","e","n">>,
      <<"n","e","w">>, <<"w","a","n","t">>, <<"b","e","c","a","u","s","e">>, <<"a","n","y">>,
      <<"t","h","e","s","e">>, <<"g","i","v","e">>, <<"d","a","y">>, <<"m","o","s","t">>,
      <<"u","s">>, <<"b","a","n","k">>, <<"a","c","c","o","u","n","t">>,
      <<"b","a","l","a","n","c","e">>, <<"t","r","a","n","s","f","e","r">>,
      <<"p","a","y","m","e","n","t">>, <<"s","a","l","a","r","y">>, <<"c","r","e","d","i","t">>,
      <<"d","e","b","i","t">>, <<"c","a","r","d">>, <<"s","a","v","i","n","g","s">>,
      <<"c","u","r","r","e","n","t">>, <<"i","b","a","n">>,
      <<"t","r","a","n","s","a","c","t","i","o","n">>, <<"a","m","o","u","n","t">>,
      <<"t","o","t","a","l">>, <<"e","u","r","o">>, <<"m","o","n","t","h","l","y">>,
      <<"p","a","s","s">>, <<"f","o","o","d">>, <<"d","e","l","i","v","e","r","y">>,
      <<"s","e","c","u","r","e">>, <<"s","e","c","u","r","i","t","y">>,
      <<"p","e","r","s","o","n","a","l">>, <<"w","e","l","c","o","m","e">>,
      <<"a","c","t","i","v","e">>, <<"e","n","a","b","l","e","d">>,
      <<"h","e","l","s","i","n","k","i">>, <<"f","i","n","l","a","n","d">> >>

\* str.lower()
LowerChar(ch) ==
    IF ch \in UpperLetters
    THEN Printable[(CHOOSE i \in DOMAIN Printable : Printable[i] = ch) + 32]
    ELSE ch
Lower(c) == [i \in DOMAIN c |-> LowerChar(c[i])]

\* {c.lower() for c in char_set}
LowerSet(char_set) == { Lower(c) : c \in char_set }

\* all(c in char_set_lower for c in w): a letter of a word is a str of one
\* character
SpellableMutantExact(word, char_set_lower) ==
    { <<word[i]>> : i \in DOMAIN word } = char_set_lower
Spellable(word, char_set_lower) ==
    \A i \in DOMAIN word : <<word[i]>> \in char_set_lower

\* [w for w in words if all(...)]
Possible(words, char_set_lower) ==
    SelectSeq(words, LAMBDA word : Spellable(word, char_set_lower))

\* possible.sort(key=len, reverse=True): stable, so a word goes behind every
\* word already placed that is not shorter
InsertMutantShortFirst(sorted, word) ==
    LET k == Cardinality({ i \in DOMAIN sorted : Len(sorted[i]) <= Len(word) })
    IN  SubSeq(sorted, 1, k) \o <<word>> \o SubSeq(sorted, k + 1, Len(sorted))
InsertByLen(sorted, word) ==
    LET k == Cardinality({ i \in DOMAIN sorted : Len(sorted[i]) >= Len(word) })
    IN  SubSeq(sorted, 1, k) \o <<word>> \o SubSeq(sorted, k + 1, Len(sorted))

RECURSIVE SortByLen(_)
SortByLen(possible) ==
    IF possible = <<>> THEN <<>>
    ELSE InsertByLen(SortByLen(SubSeq(possible, 1, Len(possible) - 1)),
                     possible[Len(possible)])

\* reconstruct.py lines 76-93; WORD_LISTS.get(category, []) for a category
\* that has no list
infer_words(char_set, categories) ==
    LET char_set_lower == LowerSet(char_set)
    IN  [category \in categories |->
            SortByLen(Possible(IF category \in DOMAIN WORD_LISTS
                               THEN WORD_LISTS[category] ELSE <<>>,
                               char_set_lower))]

\* server.py lines 510-519: possible[:15]
TopLimit == 15
collector_infer_words(char_set) ==
    LET possible == SortByLen(Possible(COMMON_WORDS, LowerSet(char_set)))
    IN  SubSeq(possible, 1, IF Len(possible) < TopLimit THEN Len(possible) ELSE TopLimit)

\* ------------------------------------------------------------------------
\* api_sessions
\* ------------------------------------------------------------------------
\* lines 525-529: the accumulators, and iter(sessions.items()); the iterator
\* remembers the number of keys the dict has now.
ListBegin ==
    /\ rpc = "idle"
    /\ rpc' = "next"
    /\ loc' = [NoLocals EXCEPT !.pos = 1, !.used = Len(sessions)]
    /\ response' = NoResponse
    /\ UNCHANGED <<shared, ingest, tool, dashboard>>

\* line 530: if not data["codepoints"]
Captured(data) == DOMAIN data.codepoints
IsListed(data) == Captured(data) # {}

\* line 529, next(iterator), and line 530.  The iterator raises RuntimeError
\* ("dictionary changed size during iteration") when the dict has another
\* number of keys than at its creation; Flask answers 500.
ListNext ==
    /\ rpc = "next"
    /\ IF Len(sessions) # loc.used
       THEN /\ rpc' = "idle"
            /\ loc' = NoLocals
            /\ response' = [route |-> "sessions", status |-> 500]
       ELSE IF loc.pos > Len(sessions)
       THEN /\ rpc' = "return"
            /\ loc' = loc
            /\ response' = NoResponse
       ELSE /\ rpc' = IF IsListed(heap[sessions[loc.pos].ref])
                      THEN "unique_ips" ELSE "next"
            /\ loc' = [loc EXCEPT !.pos = @ + 1,
                                  !.sid = sessions[loc.pos].key,
                                  !.data = sessions[loc.pos].ref]
            /\ response' = NoResponse
    /\ UNCHANGED <<shared, ingest, tool, dashboard>>

\* line 533: unique_ips.add(data["ip"])
AddIp(l, data) == [l EXCEPT !.unique_ips = @ \cup {data.ip}]

ListUniqueIps ==
    /\ rpc = "unique_ips"
    /\ rpc' = "chars"
    /\ loc' = AddIp(loc, heap[loc.data])
    /\ response' = NoResponse
    /\ UNCHANGED <<shared, ingest, tool, dashboard>>

\* lines 534-547: the sorted code points of the session; total_chars
AddChars(l, data) ==
    LET codepoints == SortedKeys(Captured(data))
    IN  [l EXCEPT !.codepoints = codepoints, !.total_chars = @ + Len(codepoints)]

ListChars ==
    /\ rpc = "chars"
    /\ rpc' = "append"
    /\ loc' = AddChars(loc, heap[loc.data])
    /\ response' = NoResponse
    /\ UNCHANGED <<shared, ingest, tool, dashboard>>

\* data["user_agent"][:80]
UserAgentLimit == 80
Truncate(ua) ==
    SubSeq(ua, 1, IF Len(ua) < UserAgentLimit THEN Len(ua) ELSE UserAgentLimit)

\* lines 546-560: infer_words(set(chars)) and the session's entry of the
\* listing
ListingEntry(sid, data, codepoints) ==
    LET chars == [i \in DOMAIN codepoints |-> codepoint_to_char(codepoints[i])]
    IN  [session_id |-> sid, ip |-> data.ip, user_agent |-> Truncate(data.user_agent),
         first_seen |-> data.first_seen, last_seen |-> data.last_seen,
         char_count |-> Len(codepoints),
         characters |-> chars,
         codepoints |-> codepoints,
         inferred_words |-> collector_infer_words({ chars[i] : i \in DOMAIN chars })]

AddEntry(l, data) ==
    [l EXCEPT !.result = Append(@, ListingEntry(l.sid, data, l.codepoints)),
              !.codepoints = <<>>]

ListAppend ==
    /\ rpc = "append"
    /\ rpc' = "next"
    /\ loc' = AddEntry(loc, heap[loc.data])
    /\ response' = NoResponse
    /\ UNCHANGED <<shared, ingest, tool, dashboard>>

\* lines 563-571: sort by last_seen, most recent first, and answer
SessionsBody(result, total_chars, log, unique_ips) ==
    [route |-> "sessions", status |-> 200,
     sessions |-> SortByLastSeen(result),
     session_count |-> Len(result),
     total_chars |-> total_chars,
     total_requests |-> Len(log),
     unique_ips |-> Cardinality(unique_ips)]

ListReturn ==
    /\ rpc = "return"
    /\ rpc' = "idle"
    /\ loc' = NoLocals
    /\ response' = SessionsBody(loc.result, loc.total_chars, access_log,
                                loc.unique_ips)
    /\ UNCHANGED <<shared, ingest, tool, dashboard>>

\* The handler run from line 525 to line 571 with no other thread scheduled
\* in between: the loop body applied to the items in the dict's order.
RECURSIVE Loop(_, _, _)
Loop(l, tbl, hp) ==
    IF l.pos > Len(tbl) THEN l
    ELSE LET data == hp[tbl[l.pos].ref]
             at == [l EXCEPT !.pos = @ + 1, !.sid = tbl[l.pos].key,
                             !.data = tbl[l.pos].ref]
         IN  Loop(IF IsListed(data) THEN AddEntry(AddChars(AddIp(at, data), data), data)
                  ELSE at,
                  tbl, hp)

ListAlone ==
    /\ rpc = "idle"
    /\ LET l == Loop([NoLocals EXCEPT !.pos = 1, !.used = Len(sessions)],
                     sessions, heap)
       IN  response' = SessionsBody(l.result, l.total_chars, access_log,
                                    l.unique_ips)
    /\ UNCHANGED <<shared, ingest, reader, tool, dashboard>>

api_sessions ==
    \/ ListBegin
    \/ ListNext
    \/ ListUniqueIps
    \/ ListChars
    \/ ListAppend
    \/ ListReturn

\* ------------------------------------------------------------------------
\* api_log
\* ------------------------------------------------------------------------
\* list[start:] with Python's treatment of a negative or too large start
SliceFrom(list, start) ==
    LET n == Len(list)
        from == IF start < 0 THEN (IF n + start < 0 THEN 0 ELSE n + start)
                ELSE (IF start > n THEN n ELSE start)
    IN  SubSeq(list, from + 1, n)

\* entries[-100:]
LogTailLimit == 100
LastMutantFirst(entries) ==
    SubSeq(entries, 1, IF Len(entries) < LogTailLimit THEN Len(entries)
                       ELSE LogTailLimit)
LastEntries(entries) == SliceFrom(entries, 0 - LogTailLimit)

\* values of the `since` query argument: around both ends of the log
SinceInputs == (0 - 1)..(Len(access_log) + 1)

\* lines 577-578: since = int(request.args.get("since", 0));
\* entries = access_log[since:]
LogSlice ==
    /\ rpc = "idle"
    /\ rpc' = "log_return"
    /\ \E since \in SinceInputs :
          loc' = [NoLocals EXCEPT !.since = since,
                                  !.entries = SliceFrom(access_log, since)]
    /\ response' = NoResponse
    /\ UNCHANGED <<shared, ingest, tool, dashboard>>

\* lines 580-583
LogBody(entries, log) ==
    [route |-> "log", status |-> 200, entries |-> LastEntries(entries), total |-> Len(log)]

LogReturn ==
    /\ rpc = "log_return"
    /\ rpc' = "idle"
    /\ loc' = NoLocals
    /\ response' = LogBody(loc.entries, access_log)
    /\ UNCHANGED <<shared, ingest, tool, dashboard>>

api_log == LogSlice \/ LogReturn

\* ------------------------------------------------------------------------
\* The collector: request threads and a reading client, freely interleaved
\* ------------------------------------------------------------------------
Next ==
    \/ \E t \in Threads : serve_tracked_font(t)
    \/ api_sessions
    \/ api_log

Spec == Init /\ [][Next]_vars

\* The request threads alone.
NextIngest == \E t \in Threads : serve_tracked_font(t)
SpecIngest == Init /\ [][NextIngest]_vars

\* Request threads whose requests in progress carry different session ids.
BeginDistinct(t) ==
    /\ Begin(t)
    /\ \A u \in Threads \ {t} : req[u].session_id # req'[t].session_id

NextDistinct ==
    \E t \in Threads :
        \/ BeginDistinct(t)
        \/ AppendEntry(t)
        \/ Lookup(t)
        \/ SetItem(t)
        \/ StoreCodepoint(t)
        \/ StoreIp(t)
        \/ StoreUserAgent(t)
        \/ TestFirstSeen(t)
        \/ StoreFirstSeen(t)
        \/ StoreLastSeen(t)
SpecDistinct == Init /\ [][NextDistinct]_vars

\* The same request threads, and listings that no request thread interrupts.
NextListing ==
    \/ NextDistinct
    \/ ListAlone
SpecListing == Init /\ [][NextListing]_vars

\* api_log on the log one client leaves behind after n requests, each at a
\* later time than the one before.
MaxLogLength == 103
LogOfLength(n) ==
    [i \in 1..n |->
        [timestamp |-> i, ip |-> ClientOrder[1].ip, session_id |-> SessionOrder[1],
         codepoint |-> Upper(<<"0","0","4","1">>),
         user_agent |-> ClientOrder[1].user_agent]]

InitLog ==
    /\ clock = 1
    /\ heap = <<>>
    /\ sessions = <<>>
    /\ access_log \in { LogOfLength(n) : n \in 0..MaxLogLength }
    /\ pc = [t \in Threads |-> "idle"]
    /\ req = [t \in Threads |-> NoRequest]
    /\ rpc = "idle"
    /\ loc = NoLocals
    /\ response = NoResponse
    /\ dashboard = PageLoaded
    /\ tool = NoTool
SpecLog == InitLog /\ [][api_log]_vars

\* ------------------------------------------------------------------------
\* codepoint_to_char called on one hex string
\* ------------------------------------------------------------------------
MaxHexLen == 4
HexChars == {"0", "1", "2", "3", "7", "A", "a", "C", "c", "E", "e", "F", "f"}
HexInputs == UNION { [1..n -> HexChars] : n \in 1..MaxHexLen }

InitRegistry ==
    /\ CollectorInit
    /\ tool \in { [pc |-> "codepoint_to_char", hex_cp |-> h] : h \in HexInputs }

ToGlyph ==
    /\ tool.pc = "codepoint_to_char"
    /\ tool' = [pc |-> "glyph", hex_cp |-> tool.hex_cp,
                result |-> codepoint_to_char(tool.hex_cp)]
    /\ UNCHANGED <<shared, ingest, reader, response, dashboard>>

SpecRegistry == InitRegistry /\ [][ToGlyph]_vars

\* ------------------------------------------------------------------------
\* reconstruct.py: analyze_character_set
\* ------------------------------------------------------------------------
\* str.isdigit(), str.isupper(), str.islower() on a str of the characters the
\* character map holds
IsDigit(c) == c # <<>> /\ \A i \in DOMAIN c : c[i] \in Digits
IsUpper(c) ==
    /\ \E i \in DOMAIN c : c[i] \in UpperLetters
    /\ \A i \in DOMAIN c : c[i] \notin LowerLetters
IsLower(c) ==
    /\ \E i \in DOMAIN c : c[i] \in LowerLetters
    /\ \A i \in DOMAIN c : c[i] \notin UpperLetters

\* str.isalnum()
IsAlnum(c) ==
    c # <<>> /\ \A i \in DOMAIN c : c[i] \in Digits \cup UpperLetters \cup LowerLetters

\* ord(ch), and a < b on str: by the code points of the characters
Ord(ch) ==
    IF \E c \in Currency : c.ch = ch
    THEN (CHOOSE c \in Currency : c.ch = ch).ord
    ELSE (CHOOSE i \in DOMAIN Printable : Printable[i] = ch) + (FirstPrintable - 1)
Before(a, b) ==
    \/ \E i \in 1..Len(a) :
          /\ i <= Len(b)
          /\ \A j \in 1..(i - 1) : a[j] = b[j]
          /\ Ord(a[i]) < Ord(b[i])
    \/ /\ Len(a) < Len(b)
       /\ \A j \in 1..Len(a) : a[j] = b[j]

\* sorted(c for c in chars if ...)
RECURSIVE Sorted(_)
Sorted(cs) ==
    IF cs = {} THEN <<>>
    ELSE LET least == CHOOSE c \in cs : \A o \in cs \ {c} : Before(c, o)
         IN  <<least>> \o Sorted(cs \ {least})

\* set("...") of lines 103, 104 and 117: the strs of one character
SetOf(characters) == { <<ch>> : ch \in characters }
CurrencySigns == SetOf({ c.ch : c \in Currency } \cup {"$"})
Punctuation == SetOf({".", ",", "!", "?", ";", ":", "-", "(", ")", "'", "\""})

CurrencyAmount == "CURRENCY_AMOUNT (monetary values detected)"
MixedCase == "MIXED_CASE (proper nouns or sentences)"
FinnishIban == "FINNISH_IBAN (FI prefix + digits)"
EmailAddress == "EMAIL_ADDRESS (@ symbol present)"

\* if cond: patterns.append(label)
AppendMutantFirst(patterns, cond, label) ==
    IF cond /\ patterns = <<>> THEN Append(patterns, label) ELSE patterns
AppendIf(patterns, cond, label) ==
    IF cond THEN Append(patterns, label) ELSE patterns

\* lines 98-123, for the collection chars taken as the set of its members
analyze_character_set(chars) ==
    LET has_digits == \E c \in chars : IsDigit(c)
        has_uppercase == \E c \in chars : IsUpper(c)
        has_lowercase == \E c \in chars : IsLower(c)
        has_currency == chars \cap CurrencySigns # {}
        has_punctuation == chars \cap Punctuation # {}
        p1 == AppendIf(<<>>, has_currency /\ has_digits, CurrencyAmount)
        p2 == AppendIf(p1, has_uppercase /\ has_lowercase, MixedCase)
        p3 == AppendIf(p2, SetOf({"F", "I"}) \subseteq chars
                              /\ (\E c \in chars : IsDigit(c)), FinnishIban)
        p4 == AppendIf(p3, <<"@">> \in chars, EmailAddress)
    IN  [total_unique |-> Cardinality(chars),
         has_digits |-> has_digits,
         has_uppercase |-> has_uppercase,
         has_lowercase |-> has_lowercase,
         has_currency |-> has_currency,
         has_punctuation |-> has_punctuation,
         digits |-> Sorted({ c \in chars : IsDigit(c) }),
         uppercase |-> Sorted({ c \in chars : IsUpper(c) }),
         lowercase |-> Sorted({ c \in chars : IsLower(c) }),
         special |-> Sorted({ c \in chars : ~ IsAlnum(c) /\ c # <<" ">> }),
         patterns |-> p4]

\* analyze_character_set called on one character set
AnalyzedChars ==
    SetOf({"5", "0", "€", "$", "F", "I", "a", "@", ".", " "})
    \cup { <<"U", "+", "f", "f">>, <<"U", "+", "0", "0", "E", "4">> }
InitAnalyze ==
    /\ CollectorInit
    /\ tool \in { [pc |-> "analyze_character_set", chars |-> cs] :
                      cs \in SUBSET AnalyzedChars }

Analyze ==
    /\ tool.pc = "analyze_character_set"
    /\ tool' = [pc |-> "analysis", chars |-> tool.chars,
                analysis |-> analyze_character_set(tool.chars)]
    /\ UNCHANGED <<shared, ingest, reader, response, dashboard>>

SpecAnalyze == InitAnalyze /\ [][Analyze]_vars

\* ------------------------------------------------------------------------
\* infer_words called on one character set
\* ------------------------------------------------------------------------
InferredChars == SetOf({"a", "e", "T", "o", "n", "h", "i", "s", "t", "5"})
CategoryInputs == { DOMAIN WORD_LISTS, {"banking", "slang"} }

InitInfer ==
    /\ CollectorInit
    /\ tool \in { [pc |-> "infer_words", char_set |-> cs, categories |-> cats] :
                      cs \in SUBSET InferredChars, cats \in CategoryInputs }

InferWords ==
    /\ tool.pc = "infer_words"
    /\ tool' = [pc |-> "inferred", char_set |-> tool.char_set,
                categories |-> tool.categories,
                results |-> infer_words(tool.char_set, tool.categories)]
    /\ UNCHANGED <<shared, ingest, reader, response, dashboard>>

CollectorInferWords ==
    /\ tool.pc = "infer_words"
    /\ tool' = [pc |-> "top", char_set |-> tool.char_set,
                categories |-> tool.categories,
                possible |-> collector_infer_words(tool.char_set)]
    /\ UNCHANGED <<shared, ingest, reader, response, dashboard>>

SpecInfer == InitInfer /\ [][InferWords \/ CollectorInferWords]_vars

\* ------------------------------------------------------------------------
\* reconstruct.py: parse_log_file, fetch_from_api, main
\* ------------------------------------------------------------------------
\* A line of a log file after line.strip(), by what json.loads makes of it:
\* empty, not JSON, a JSON value that is no object, or an object (a function
\* from its keys to values).
BlankLine == [form |-> "blank"]
NotJson == [form |-> "not json"]
JsonList == [form |-> "list"]
JsonObject(fields) == [form |-> "object", fields |-> fields]

\* entry.get(key, default)
Get(entry, key, default) == IF key \in DOMAIN entry THEN entry[key] ELSE default

\* sessions[sid] of the defaultdict of line 143, in insertion order
Folded(tbl, sid) ==
    IF \E i \in DOMAIN tbl : tbl[i].session_id = sid
    THEN tbl
    ELSE Append(tbl, [session_id |-> sid, codepoints |-> {}, ip |-> ""])

\* lines 152-155 for one entry
AddRecord(tbl, entry) ==
    LET sid == Get(entry, "session_id", "unknown")
        cp == Get(entry, "codepoint", <<>>)
        at == Folded(tbl, sid)
    IN  [i \in DOMAIN at |->
            IF at[i].session_id = sid
            THEN [at[i] EXCEPT !.codepoints = @ \cup {cp},
                               !.ip = Get(entry, "ip", "")]
            ELSE at[i]]

\* lines 146-157: the loop over the lines.  Only json.JSONDecodeError is
\* caught; entry.get on a value that is no object raises AttributeError, which
\* leaves parse_log_file.
RECURSIVE ReadLines(_, _)
ReadLines(lines, tbl) ==
    IF lines = <<>> THEN [raised |-> FALSE, sessions |-> tbl]
    ELSE LET line == Head(lines)
         IN  CASE line.form \in {"blank", "not json"} -> ReadLines(Tail(lines), tbl)
               [] line.form = "list" -> [raised |-> TRUE, sessions |-> <<>>]
               [] OTHER -> ReadLines(Tail(lines), AddRecord(tbl, line.fields))

\* lines 159-168
ReplayEntry(data) ==
    LET codepoints == SortedKeys(data.codepoints)
    IN  [session_id |-> data.session_id,
         ip |-> data.ip,
         characters |-> [i \in DOMAIN codepoints |-> codepoint_to_char(codepoints[i])],
         codepoints |-> codepoints,
         char_count |-> Len(codepoints)]

parse_log_file(lines) ==
    LET read == ReadLines(lines, <<>>)
    IN  IF read.raised THEN [raised |-> TRUE, sessions |-> <<>>]
        ELSE [raised |-> FALSE,
              sessions |-> [i \in DOMAIN read.sessions |-> ReplayEntry(read.sessions[i])]]

\* What the request of fetch_from_api meets: an exception of urlopen, read or
\* json.loads (no connection, a timeout, an HTTP error status, a body that is
\* not JSON), or the JSON object the collector answers with.
ApiError == [kind |-> "error", sessions |-> <<>>]
ApiBody(listed) == [kind |-> "body", sessions |-> listed]

None == [none |-> TRUE, sessions |-> <<>>]
Dict(listed) == [none |-> FALSE, sessions |-> listed]

FailedToFetch == "[-] Failed to fetch from API"
NoSessionData == "[-] No session data found."
AnalysisComplete == "  Analysis complete."
Traceback == "Traceback (most recent call last)"

\* lines 129-138
fetch_from_api(answer) ==
    IF answer.kind = "error"
    THEN [printed |-> <<FailedToFetch>>, data |-> None]
    ELSE [printed |-> <<>>, data |-> Dict(answer.sessions)]

\* main with --api or --log, before line 266
Running == 0 - 1
Started(source, answer, lines) ==
    [pc |-> "main", source |-> source, answer |-> answer, lines |-> lines,
     data |-> None, stdout |-> <<>>, status |-> Running]

\* line 267
Fetched(t) ==
    LET got == fetch_from_api(t.answer)
    IN  [t EXCEPT !.pc = "check", !.stdout = @ \o got.printed, !.data = got.data]

\* line 269; an exception that leaves parse_log_file leaves main as well: the
\* interpreter prints the traceback and exits with status 1
Parsed(t) ==
    LET got == parse_log_file(t.lines)
    IN  IF got.raised
        THEN [t EXCEPT !.pc = "exit", !.stdout = Append(@, Traceback), !.status = 1]
        ELSE [t EXCEPT !.pc = "check", !.data = Dict(got.sessions)]

\* lines 271-273, and the report of lines 275-312
Checked(t) ==
    IF t.data.none \/ t.data.sessions = <<>>
    THEN [t EXCEPT !.pc = "exit", !.stdout = Append(@, NoSessionData), !.status = 1]
    ELSE [t EXCEPT !.pc = "exit", !.stdout = Append(@, AnalysisComplete), !.status = 0]

FetchFromApi ==
    /\ tool.pc = "main"
    /\ tool.source = "api"
    /\ tool' = Fetched(tool)
    /\ UNCHANGED <<shared, ingest, reader, response, dashboard>>

ParseLogFile ==
    /\ tool.pc = "main"
    /\ tool.source = "log"
    /\ tool' = Parsed(tool)
    /\ UNCHANGED <<shared, ingest, reader, response, dashboard>>

CheckData ==
    /\ tool.pc = "check"
    /\ tool' = Checked(tool)
    /\ UNCHANGED <<shared, ingest, reader, response, dashboard>>

main == FetchFromApi \/ ParseLogFile \/ CheckData

\* The inputs of main: what the API answers, and the lines of a log file.
MaxLines == 3
LoggedIps == {"10.0.0.1", "10.0.0.2"}
FullRecords ==
    { [session_id |-> sid, codepoint |-> Upper(cp), ip |-> ip] :
         sid \in SessionIds, cp \in CodepointInputs, ip \in LoggedIps }
PartRecords ==
    { [codepoint |-> <<"0", "0", "4", "1">>, ip |-> "10.0.0.1"],
      [session_id |-> "s1", ip |-> "10.0.0.1"],
      [session_id |-> "s1", codepoint |-> <<"0", "0", "4", "1">>] }
LineInputs ==
    {BlankLine, NotJson, JsonList}
    \cup { JsonObject(r) : r \in FullRecords \cup PartRecords }
Batches == UNION { [1..n -> LineInputs] : n \in 0..MaxLines }

ListedOnce ==
    << ReplayEntry([session_id |-> "s1", ip |-> "10.0.0.1",
                    codepoints |-> {<<"0", "0", "4", "1">>}]) >>
ApiAnswers == {ApiError, ApiBody(<<>>), ApiBody(ListedOnce)}

InitTool ==
    /\ CollectorInit
    /\ tool \in { Started("api", a, <<>>) : a \in ApiAnswers }
               \cup { Started("log", ApiError, b) : b \in Batches }

SpecTool == InitTool /\ [][main]_vars

\* ------------------------------------------------------------------------
\* Replay of the collector's log
\* ------------------------------------------------------------------------
\* The log written out one JSON object per line (json.dumps of each entry);
\* json.loads gives back an object with the same keys and values.
LogLines(log) == [i \in DOMAIN log |-> JsonObject(log[i])]

\* reconstruct.py --log on the lines of the log as it is now
ReplayLog ==
    /\ tool.pc = "off"
    /\ tool' = Parsed(Started("log", ApiError, LogLines(access_log)))
    /\ UNCHANGED <<shared, ingest, reader, response, dashboard>>

NextReplay ==
    \/ NextIngest
    \/ ReplayLog
    \/ ListAlone
SpecReplay == Init /\ [][NextReplay]_vars

\* ------------------------------------------------------------------------
\* The dashboard's polling of the log
\* ------------------------------------------------------------------------
\* server.py line 417: fetch('/api/log?since=' + lastLogCount); the request
\* runs lines 577-578 of api_log.
PollLog ==
    /\ rpc = "idle"
    /\ ~ dashboard.polling
    /\ rpc' = "log_return"
    /\ loc' = [NoLocals EXCEPT !.since = dashboard.lastLogCount,
                               !.entries = SliceFrom(access_log, dashboard.lastLogCount)]
    /\ dashboard' = [dashboard EXCEPT !.polling = TRUE]
    /\ response' = NoResponse
    /\ UNCHANGED <<shared, ingest, tool>>

\* lines 419-439 of the page: entries are shown, and lastLogCount becomes the
\* total of the answer, when the answer holds entries
Shown(page, logData) ==
    IF Len(logData.entries) > 0
    THEN [page EXCEPT !.logContainer = @ \o logData.entries,
                      !.lastLogCount = logData.total,
                      !.polling = FALSE]
    ELSE [page EXCEPT !.polling = FALSE]

\* lines 580-583 of api_log, and the page's handling of the answer
PollAnswer ==
    /\ rpc = "log_return"
    /\ dashboard.polling
    /\ rpc' = "idle"
    /\ loc' = NoLocals
    /\ response' = LogBody(loc.entries, access_log)
    /\ dashboard' = Shown(dashboard, response')
    /\ UNCHANGED <<shared, ingest, tool>>

NextPoll ==
    \/ NextDistinct
    \/ PollLog
    \/ PollAnswer
SpecPoll == Init /\ [][NextPoll]_vars

\* ------------------------------------------------------------------------
\* A session while its text is typed: one request per new character
\* ------------------------------------------------------------------------
\* serve_tracked_font, lines 168-190, run for the request r with no other
\* thread scheduled in between, on the store st
Ingested(st, r) ==
    LET miss == \A i \in DOMAIN st.sessions : st.sessions[i].key # r.session_id
        hp   == IF miss THEN Append(st.heap, DefaultSession) ELSE st.heap
        tbl  == IF miss THEN TableSet(st.sessions, r.session_id, Len(hp))
                ELSE st.sessions
        ref  == tbl[CHOOSE i \in DOMAIN tbl : tbl[i].key = r.session_id].ref
        sess == PutUserAgent(PutIp(PutCodepoint(hp[ref], r.codepoint, r.now), r.ip),
                             r.user_agent)
        seen == IF FirstSeenUnset(sess) THEN PutFirstSeen(sess, r.now) ELSE sess
    IN  [heap |-> [hp EXCEPT ![ref] = PutLastSeen(seen, r.now)],
         sessions |-> tbl,
         access_log |-> LogAppend(st.access_log, Entry(r))]

\* Requests served in one behaviour of a session that is being typed.
MaxLetters == 8
\* The <codepoint> segments of the letters e, t, o, n, h, i, s the page has
\* rendered so far, in the order they were typed, and of the letters that may
\* be typed next.
Typed ==
    << <<"0","0","6","5">>, <<"0","0","7","4">>, <<"0","0","6","f">>,
       <<"0","0","6","e">>, <<"0","0","6","8">>, <<"0","0","6","9">>,
       <<"0","0","7","3">> >>
KeystrokeInputs == { Typed[i] : i \in DOMAIN Typed } \cup { <<"0","0","6","1">> }

\* lines 168-169 for the font request of one typed character
Keystroke(cp, now) ==
    [session_id |-> SessionOrder[1], codepoint |-> Upper(cp),
     ip |-> ClientOrder[1].ip, user_agent |-> ClientOrder[1].user_agent,
     now |-> now, sess |-> 0]

\* The store after the requests of the first n typed letters.
RECURSIVE Typing(_)
Typing(n) ==
    IF n = 0 THEN [heap |-> <<>>, sessions |-> <<>>, access_log |-> <<>>]
    ELSE Ingested(Typing(n - 1), Keystroke(Typed[n], 1))

InitWords ==
    /\ clock = 1
    /\ \E n \in (MaxLetters - MaxRequests)..Len(Typed) :
          /\ heap = Typing(n).heap
          /\ sessions = Typing(n).sessions
          /\ access_log = Typing(n).access_log
    /\ pc = [t \in Threads |-> "idle"]
    /\ req = [t \in Threads |-> NoRequest]
    /\ rpc = "idle"
    /\ loc = NoLocals
    /\ response = NoResponse
    /\ dashboard = PageLoaded
    /\ tool = NoTool

IngestAlone ==
    /\ \A t \in Threads : pc[t] = "idle"
    /\ rpc = "idle"
    /\ Len(access_log) < MaxLetters
    /\ \E cp \in KeystrokeInputs, d \in {0, 1} :
          /\ clock + d <= MaxTime
          /\ clock' = clock + d
          /\ LET st == Ingested([heap |-> heap, sessions |-> sessions,
                                 access_log |-> access_log],
                                Keystroke(cp, clock + d))
             IN  /\ heap' = st.heap
                 /\ sessions' = st.sessions
                 /\ access_log' = st.access_log
    /\ response' = NoResponse
    /\ UNCHANGED <<ingest, reader, tool, dashboard>>

NextWords ==
    \/ IngestAlone
    \/ ListAlone
SpecWords == InitWords /\ [][NextWords]_vars

\* ------------------------------------------------------------------------
\* Properties
\* ------------------------------------------------------------------------
Quiescent == \A t \in Threads : pc[t] = "idle"
EventsOf(sid) == { i \in DOMAIN access_log : access_log[i].session_id = sid }
OwnCodepoints(sid) == { access_log[i].codepoint : i \in EventsOf(sid) }
OwnIps(sid) == { access_log[i].ip : i \in EventsOf(sid) }
OwnUserAgents(sid) == { access_log[i].user_agent : i \in EventsOf(sid) }
OwnTimestamps(sid) == { access_log[i].timestamp : i \in EventsOf(sid) }
Maximum(S) == CHOOSE m \in S : \A x \in S : x <= m

\* C1: when requests in progress at the same time always carry different
\* session ids, a session never holds a code point, ip or user agent that no
\* request of its own carried, and once every request has completed each
\* session holds exactly the code points of its own requests.
C1_SessionsIsolated ==
    \A sid \in SessionIds :
        /\ sid \in Keys =>
              /\ Captured(Session(sid)) \subseteq OwnCodepoints(sid)
              /\ Session(sid).ip \in OwnIps(sid) \cup {""}
              /\ Session(sid).user_agent \in OwnUserAgents(sid) \cup {<<>>}
        /\ (Quiescent /\ EventsOf(sid) # {}) =>
              /\ sid \in Keys
              /\ Captured(Session(sid)) = OwnCodepoints(sid)
              /\ Session(sid).ip \in OwnIps(sid)
              /\ Session(sid).user_agent \in OwnUserAgents(sid)

\* Two requests of different sessions overlapped (the one logged first
\* entered the dict second) and both have completed.
C1_Witness ==
    /\ Quiescent
    /\ Len(sessions) = 2
    /\ sessions[1].key # access_log[1].session_id
    /\ \A sid \in Keys : Captured(Session(sid)) # {}

\* C2 (as claimed): a listing never returns a session whose captured set is
\* non-empty while first_seen is still the unset value 0.
C2_NoTornSession ==
    (response.route = "sessions" /\ response.status = 200) =>
        \A i \in DOMAIN response.sessions :
            ~ (response.sessions[i].char_count > 0
               /\ response.sessions[i].first_seen = 0)

\* C3 (as claimed): once every request has completed, last_seen of a session
\* is the greatest timestamp of the session's events.
C3_LastSeenIsMax ==
    Quiescent =>
        \A sid \in Keys :
            EventsOf(sid) # {} =>
                Session(sid).last_seen = Maximum(OwnTimestamps(sid))

\* C4 (as claimed): no step removes a session or a code point of a session.
C4_StoreOnlyGrows ==
    [][ \A sid \in Keys :
            /\ sid \in Keys'
            /\ Captured(Session(sid)) \subseteq Captured(Session(sid))' ]_vars

\* C5: line 185 executed for a code point that the session dict already
\* holds changes the captured set of no session dict, in members and in size,
\* and leaves the table of sessions as it is.
C5_InsertIdempotent ==
    [][ \A t \in Threads :
            ( /\ pc[t] = "codepoints"
              /\ pc'[t] = "ip"
              /\ req[t].codepoint \in Captured(Sess(t)) )
            => /\ \A r \in DOMAIN heap : Captured(heap'[r]) = Captured(heap[r])
               /\ Cardinality(Captured(heap'[req[t].sess]))
                     = Cardinality(Captured(Sess(t)))
               /\ sessions' = sessions ]_vars

\* A request has just stored a code point that an earlier, completed request
\* of the same session had stored before it.
C5_Witness ==
    \E t \in Threads :
        /\ pc[t] = "ip"
        /\ \A u \in Threads \ {t} : pc[u] = "idle"
        /\ req[t].sess = Ref(req[t].session_id)
        /\ Sess(t).codepoints[req[t].codepoint] = req[t].now
        /\ \E i \in EventsOf(req[t].session_id) :
              /\ access_log[i].codepoint = req[t].codepoint
              /\ access_log[i].timestamp < req[t].now

\* C6 (as claimed): once first_seen of a session is set, no step changes it.
C6_FirstSeenWrittenOnce ==
    [][ \A sid \in Keys :
            Session(sid).first_seen # 0 =>
                (sid \in Keys' /\ (Session(sid).first_seen)' = Session(sid).first_seen)
      ]_vars

\* C7: line 181 appends exactly the request's entry at the end of the log;
\* every other step of a request leaves the log as it is, so entries keep
\* their index and content.
C7_LogAppendOnly ==
    [][ /\ SubSeq(access_log', 1, Len(access_log)) = access_log
        /\ \A t \in Threads :
              (pc[t] = "append" /\ pc'[t] = "lookup") =>
                  access_log' = access_log \o <<Entry(req[t])>>
        /\ (\A t \in Threads : ~ (pc[t] = "append" /\ pc'[t] = "lookup")) =>
              access_log' = access_log ]_vars

\* A request has just appended its entry behind an earlier, different one.
C7_Witness ==
    \E t \in Threads :
        /\ pc[t] = "lookup"
        /\ Len(access_log) >= 2
        /\ access_log[Len(access_log)] = Entry(req[t])
        /\ access_log[1] # Entry(req[t])

\* C8: for a log of length n and since = s >= 0 the log endpoint answers with
\* the entries of index >= s in append order, cut down to the last 100 of
\* them, and with total = n; for s >= n the entries are empty.
C8_LogTail ==
    [][ (rpc = "log_return" /\ rpc' = "idle" /\ loc.since >= 0
         /\ access_log' = access_log) =>
            LET n == Len(access_log)
                s == loc.since
                m == IF s >= n THEN 0 ELSE n - s
                k == IF m > LogTailLimit THEN LogTailLimit ELSE m
            IN  /\ response'.total = n
                /\ response'.entries = [j \in 1..k |-> access_log[n - k + j]]
                /\ (s >= n => response'.entries = <<>>) ]_vars

\* The endpoint has just cut more than 100 entries down to the last 100.
C8_Witness ==
    /\ response.route = "log"
    /\ Len(access_log) = LogTailLimit + 3
    /\ Len(response.entries) = LogTailLimit
    /\ response.entries[1] = access_log[4]
    /\ response.entries[LogTailLimit] = access_log[Len(access_log)]

\* C9: a listing that no request thread interrupts (requests may be paused
\* anywhere in their handler) contains exactly the
\* sessions whose captured set is non-empty, each once, ordered by last_seen
\* descending.
C9_ListingContent ==
    response.route = "sessions" =>
        LET listed == response.sessions
        IN  /\ response.status = 200
            /\ { listed[i].session_id : i \in DOMAIN listed }
                  = { sid \in Keys : Captured(Session(sid)) # {} }
            /\ \A i, j \in DOMAIN listed :
                  i # j => listed[i].session_id # listed[j].session_id
            /\ \A i \in 1..(Len(listed) - 1) :
                  listed[i].last_seen >= listed[i + 1].last_seen

\* A listing of two sessions puts the session that entered the dict second,
\* and was seen last, first.
C9_Witness ==
    /\ response.route = "sessions"
    /\ Len(response.sessions) = 2
    /\ response.sessions[1].session_id = sessions[2].key
    /\ response.sessions[1].last_seen > response.sessions[2].last_seen

RECURSIVE SumCharCount(_)
SumCharCount(listed) ==
    IF listed = <<>> THEN 0
    ELSE listed[1].char_count + SumCharCount(SubSeq(listed, 2, Len(listed)))

\* C10 (as claimed): in every listing the counters agree with the sessions
\* returned with them and with the log.
C10_CountersAgree ==
    (response.route = "sessions" /\ response.status = 200) =>
        LET listed == response.sessions
        IN  /\ response.total_requests = Len(access_log)
            /\ response.unique_ips
                  = Cardinality({ listed[i].ip : i \in DOMAIN listed })
            /\ response.session_count = Len(listed)
            /\ response.total_chars = SumCharCount(listed)

\* C11 (as claimed): a listing that runs while requests are in progress always
\* returns a listing; it never ends in the error the dict iterator raises.
C11_ListingCompletes ==
    response.route = "sessions" => response.status = 200

\* C20 (as claimed): once every request has completed, the captured set of
\* each session is the set of code points of the log entries of that session,
\* also when requests of one session ran in parallel.
C20_NoCodepointLost ==
    Quiescent =>
        \A sid \in SessionIds :
            EventsOf(sid) # {} =>
                /\ sid \in Keys
                /\ Captured(Session(sid)) = OwnCodepoints(sid)

\* int(h, 16)
HexValue(c) == CharRank(UpperChar(c)) - 1
RECURSIVE IntOfHex(_)
IntOfHex(h) ==
    IF h = <<>> THEN 0
    ELSE 16 * IntOfHex(SubSeq(h, 1, Len(h) - 1)) + HexValue(h[Len(h)])

\* C18 (as claimed): codepoint_to_char gives a hex string the result it gives
\* the upper-cased string, so strings that differ only in letter case get the
\* same result, mapped or not.
C18_CaseInsensitive ==
    tool.pc = "glyph" => tool.result = codepoint_to_char(Upper(tool.hex_cp))

WellFormed(line) ==
    /\ line.form = "object"
    /\ {"session_id", "codepoint"} \subseteq DOMAIN line.fields

\* C12 (as claimed): whatever lines a batch holds, parse_log_file returns, and
\* its sessions and their code points are those of the well-formed records of
\* the batch and no others.
C12_MalformedSkipped ==
    (tool.pc \in {"check", "exit"} /\ tool.source = "log") =>
        LET good == { i \in DOMAIN tool.lines : WellFormed(tool.lines[i]) }
            listed == tool.data.sessions
        IN  /\ ~ tool.data.none
            /\ { listed[i].session_id : i \in DOMAIN listed }
                  = { tool.lines[i].fields.session_id : i \in good }
            /\ \A i \in DOMAIN listed :
                  { listed[i].codepoints[j] : j \in DOMAIN listed[i].codepoints }
                     = { tool.lines[k].fields.codepoint :
                            k \in { g \in good : tool.lines[g].fields.session_id
                                                      = listed[i].session_id } }

\* C13 (as claimed): when fetch_from_api fails, the final message and the exit
\* status of main differ from those of a run in which the API answers with an
\* empty list of sessions.
C13_FailureDistinct ==
    (tool.pc = "exit" /\ tool.source = "api" /\ tool.answer = ApiError) =>
        LET empty == Checked(Fetched(Started("api", ApiBody(<<>>), <<>>)))
        IN  <<tool.stdout[Len(tool.stdout)], tool.status>>
               # <<empty.stdout[Len(empty.stdout)], empty.status>>

\* The fields of a listing that replay and live snapshot have in common.
SharedFields(listed) ==
    { [session_id |-> listed[i].session_id, ip |-> listed[i].ip,
       codepoints |-> listed[i].codepoints, characters |-> listed[i].characters,
       char_count |-> listed[i].char_count] : i \in DOMAIN listed }

\* C14 (as claimed): once every request has completed, replaying the lines of
\* the log gives the session ids of the live listing and, for each session,
\* the same codepoints, characters, char_count and ip.
C14_ReplayEqualsLive ==
    ( /\ Quiescent
      /\ response.route = "sessions"
      /\ tool.pc = "check"
      /\ tool.lines = LogLines(access_log) )
    => SharedFields(tool.data.sessions) = SharedFields(response.sessions)

\* C15: analyze_character_set reports exactly the patterns whose condition
\* holds, each whatever the others do, in the order CURRENCY_AMOUNT,
\* MIXED_CASE, FINNISH_IBAN, EMAIL_ADDRESS; the set {5, 0, euro sign} yields
\* CURRENCY_AMOUNT only.
C15_PatternsExact ==
    tool.pc = "analysis" =>
        LET a == tool.analysis
            cs == tool.chars
            holds(label) ==
                CASE label = CurrencyAmount -> a.has_currency /\ a.has_digits
                  [] label = MixedCase -> a.has_uppercase /\ a.has_lowercase
                  [] label = FinnishIban ->
                        <<"F">> \in cs /\ <<"I">> \in cs /\ a.has_digits
                  [] label = EmailAddress -> <<"@">> \in cs
        IN  /\ a.patterns
                  = SelectSeq(<<CurrencyAmount, MixedCase, FinnishIban, EmailAddress>>,
                              holds)
            /\ a.has_digits = (cs \cap SetOf(Digits) # {})
            /\ cs = {<<"5">>, <<"0">>, <<"€">>} => a.patterns = <<CurrencyAmount>>

\* A set with the letters F and I, digits, a currency sign and an at sign has
\* been analyzed: three detectors fired, MIXED_CASE did not.
C15_Witness ==
    /\ tool.pc = "analysis"
    /\ tool.chars = SetOf({"F", "I", "5", "0", "€", "@"})
    /\ tool.analysis.patterns = <<CurrencyAmount, FinnishIban, EmailAddress>>

\* The words of a list whose every letter is the lower-case form of a member
\* of the character set, and the order of two words of a list: the longer
\* first, of two of equal length the one that is earlier in the list.
Fitting(words, char_set) ==
    { words[i] : i \in { k \in DOMAIN words :
          \A j \in DOMAIN words[k] :
              \E c \in char_set : Lower(c) = <<words[k][j]>> } }
IndexIn(words, word) == CHOOSE i \in DOMAIN words : words[i] = word
Precedes(words, a, b) ==
    \/ Len(a) > Len(b)
    \/ Len(a) = Len(b) /\ IndexIn(words, a) < IndexIn(words, b)
InOrder(words, r) ==
    \A i, j \in DOMAIN r : i < j => Precedes(words, r[i], r[j])
Members(r) == { r[i] : i \in DOMAIN r }

\* C16: for every category infer_words returns exactly the words of the
\* category's list that the lower-cased character set spells, the longer
\* first and words of equal length in list order; the collector's infer_words
\* returns the first 15 words of its list so ordered.
C16_InferExact ==
    /\ tool.pc = "inferred" =>
          \A category \in tool.categories :
              LET words == IF category \in DOMAIN WORD_LISTS
                           THEN WORD_LISTS[category] ELSE <<>>
                  r == tool.results[category]
              IN  /\ Members(r) = Fitting(words, tool.char_set)
                  /\ Len(r) = Cardinality(Members(r))
                  /\ InOrder(words, r)
    /\ tool.pc = "top" =>
          LET r == tool.possible
              fit == Fitting(COMMON_WORDS, tool.char_set)
          IN  /\ Members(r) \subseteq fit
              /\ Len(r) = Cardinality(Members(r))
              /\ Len(r) = IF Cardinality(fit) < TopLimit
                          THEN Cardinality(fit) ELSE TopLimit
              /\ InOrder(COMMON_WORDS, r)
              /\ \A a \in Members(r), b \in fit \ Members(r) :
                    Precedes(COMMON_WORDS, a, b)

\* The collector's infer_words has cut a longer list down to 15 words, the
\* first of them the longest, written with an upper-case letter in the set.
C16_Witness ==
    /\ tool.pc = "top"
    /\ tool.char_set = SetOf({"a", "e", "T", "o", "n", "h", "i", "s"})
    /\ Len(tool.possible) = TopLimit
    /\ tool.possible[1] = <<"t","h","e","s","e">>
    /\ Cardinality(Fitting(COMMON_WORDS, tool.char_set)) > TopLimit

\* C17: every word infer_words returns for a subset of a character set, it
\* returns for the set itself, in every category; the empty set yields the
\* empty list in every category.
C17_InferMonotonic ==
    tool.pc = "inferred" =>
        /\ \A subset \in SUBSET tool.char_set :
              \A category \in tool.categories :
                  Members(infer_words(subset, tool.categories)[category])
                     \subseteq Members(tool.results[category])
        /\ tool.char_set = {} =>
              \A category \in tool.categories : tool.results[category] = <<>>

\* infer_words has answered for a set whose subsets spell words as well.
C17_Witness ==
    /\ tool.pc = "inferred"
    /\ tool.char_set = SetOf({"T", "h", "e", "s"})
    /\ "common" \in tool.categories
    /\ tool.results["common"]
          = << <<"t","h","e","s","e">>, <<"t","h","e">>, <<"s","h","e">>,
               <<"s","e","e">> >>
    /\ infer_words(SetOf({"T", "h", "e"}), {"common"})["common"]
          = << <<"t","h","e">> >>

\* C23 (as claimed): the flags are existence tests against the fixed classes:
\* has_digits holds exactly when a member is one of 0..9, has_uppercase when a
\* member is one of A..Z, has_lowercase when a member is one of a..z,
\* has_currency when a member is one of the four currency symbols.
C23_FlagsAreClassTests ==
    tool.pc = "analysis" =>
        LET a == tool.analysis
            cs == tool.chars
        IN  /\ a.has_digits = (cs \cap SetOf(Digits) # {})
            /\ a.has_uppercase = (cs \cap SetOf(UpperLetters) # {})
            /\ a.has_lowercase = (cs \cap SetOf(LowerLetters) # {})
            /\ a.has_currency = (cs \cap SetOf({ c.ch : c \in Currency }) # {})

\* C24 (as claimed): digits, uppercase, lowercase and special are pairwise
\* disjoint and their union is the set of the members other than the space.
C24_SubsetsPartition ==
    tool.pc = "analysis" =>
        LET a == tool.analysis
            parts == << Members(a.digits), Members(a.uppercase),
                        Members(a.lowercase), Members(a.special) >>
        IN  /\ \A i, j \in DOMAIN parts : i # j => parts[i] \cap parts[j] = {}
            /\ UNION { parts[i] : i \in DOMAIN parts } = tool.chars \ {<<" ">>}

\* C21 (as claimed): a client that polls with since = the total of its last
\* non-empty answer has received, in append order and once each, every entry
\* below the index it will ask from next, also while requests are served.
C21_PollingComplete ==
    dashboard.logContainer = SubSeq(access_log, 1, dashboard.lastLogCount)

\* The listing api_sessions answers with when it runs on the store (tbl, hp).
ListingOf(tbl, hp) ==
    Loop([NoLocals EXCEPT !.pos = 1, !.used = Len(tbl)], tbl, hp).result

\* C22 (as claimed): a word in a session's inferred_words in the sessions
\* listing taken before a step is in that session's inferred_words in the
\* listing taken after it, so no later listing withdraws a word.
C22_WordsNeverWithdrawn ==
    [][\A i \in DOMAIN ListingOf(sessions, heap),
          j \in DOMAIN ListingOf(sessions', heap') :
          ListingOf(sessions, heap)[i].session_id
              = ListingOf(sessions', heap')[j].session_id
          => Members(ListingOf(sessions, heap)[i].inferred_words)
                 \subseteq Members(ListingOf(sessions', heap')[j].inferred_words)]_vars

====
